---- MODULE Spec2Model ----
(***************************************************************************)
(* YX packet protocol layer (canonical/python/src/yx): identifier          *)
(* normalisation, the truncated HMAC primitive, the Packet record with its *)
(* wire codec, and the build / parse / validate pipeline.                  *)
(*                                                                         *)
(* Python values are modelled as follows.                                  *)
(*   bytes            a sequence of integers in 0..255                     *)
(*   None             NoneVal                                              *)
(*   a Packet object  [type |-> "Packet", hmac, guid, payload]             *)
(*   a call outcome   Return(v) or Raise(exception class name)             *)
(* The API is a set of static methods, so the state of the model is the    *)
(* caller's view: the arguments of the last sender-side call, the bytes on *)
(* the wire, and the outcome of the last receiver-side call.               *)
(***************************************************************************)
EXTENDS Integers, Sequences, FiniteSets, TLC

(***************************************************************************)
(* Bounds of the model.                                                    *)
(***************************************************************************)
\* byte values used in caller-supplied identifiers, payloads and blobs
MaxByte == 1
\* longest caller-supplied identifier (the protocol width is 6)
MaxIdLen == 7
\* longest payload
MaxPayloadLen == 2
\* longest blob an untrusted peer injects (the minimum packet is 22)
MaxBlobLen == 24
\* a tampered byte is the original plus 1..MaxDelta (mod 256)
MaxDelta == 1
\* largest truncate_to given to compute_hmac (the digest has 32 bytes)
MaxTruncate == 33
\* longest string given to from_hex (12 characters make 6 bytes)
MaxHexLen == 14
\* strings of consecutive digits step by 0..MaxHexStep from one digit to
\* the next
MaxHexStep == 1
\* truncate_to is a Python int: values down to -MaxNegTruncate are given
MaxNegTruncate == 1

\* threads that call the pipeline at the same time
NumThreads == 2
\* OS sockets that can be created in one run
MaxSockets == 2
\* datagrams an OS socket holds for reading; a further one is dropped
MaxInbox == 2
\* packets sent in one run of the delivery scenario
MaxSends == 2

(***************************************************************************)
(* Program constants.                                                      *)
(***************************************************************************)
\* len(guid) the protocol fixes
GuidLen == 6
\* len(hmac) in a Packet, and the truncate_to used for packets
HmacLen == 16
\* required key length
KeyLen == 32
\* size of a SHA-256 digest, the largest truncate_to accepted
DigestLen == 32
\* minimum length Packet.from_bytes accepts
MinPacketLen == 22

(***************************************************************************)
(* Python values.                                                          *)
(***************************************************************************)
NoneVal == [type |-> "NoneType"]

Return(v) == [kind |-> "return", val |-> v]

Raise(e) == [kind |-> "raise", exc |-> e]

\* the outcome slot before any call has been made
NoCall == [kind |-> "nocall"]

Min(a, b) == IF a < b THEN a ELSE b

\* s[a:b] of Python for 0 <= a <= b
Slice(s, a, b) == SubSeq(s, a + 1, Min(b, Len(s)))

\* s[a:] of Python for 0 <= a
SliceFrom(s, a) == SubSeq(s, a + 1, Len(s))

Max(a, b) == IF a > b THEN a ELSE b

\* s[:b] of Python for every integer b: a negative b counts from the end
SliceTo(s, b) ==
    IF b >= 0 THEN SubSeq(s, 1, Min(b, Len(s)))
    ELSE SubSeq(s, 1, Max(Len(s) + b, 0))

\* b'\x00' * n
Zeros(n) == [i \in 1..n |-> 0]

RECURSIVE SumTo(_, _)
SumTo(s, n) == IF n = 0 THEN 0 ELSE s[n] + SumTo(s, n - 1)

\* sum of the bytes of s
ByteSum(s) == SumTo(s, Len(s))

(***************************************************************************)
(* primitives/guid_factory.py                                              *)
(***************************************************************************)
\* os.urandom(n): any n bytes (three byte values stand for the 256)
urandom(n) == [1..n -> {0, 171, 255}]

\* GUIDFactory.generate(): the set of values a call can return
generate == urandom(6)

pad_guid_notrunc(guid) ==
    IF Len(guid) >= GuidLen THEN guid
    ELSE guid \o Zeros(GuidLen - Len(guid))

pad_guid(guid) ==
    IF Len(guid) = 6 THEN guid
    ELSE IF Len(guid) < 6 THEN guid \o Zeros(6 - Len(guid))
    ELSE Slice(guid, 0, 6)

\* the digits bytes.hex() writes, in the order of their values
LowerHex == <<"0", "1", "2", "3", "4", "5", "6", "7",
              "8", "9", "a", "b", "c", "d", "e", "f">>

\* the upper-case forms bytes.fromhex() reads as well
UpperHex == <<"0", "1", "2", "3", "4", "5", "6", "7",
              "8", "9", "A", "B", "C", "D", "E", "F">>

IsHexDigit(c) == \E i \in 1..16 : LowerHex[i] = c \/ UpperHex[i] = c

HexVal(c) == (CHOOSE i \in 1..16 : LowerHex[i] = c \/ UpperHex[i] = c) - 1

\* the characters bytes.fromhex() skips between two bytes
AsciiSpace == {" ", "\t", "\n", "\r"}

\* bytes.fromhex(s), s a sequence of characters: white space before a byte
\* is skipped, then two adjacent hexadecimal digits are read, the high
\* nibble first
RECURSIVE fromhex(_)
fromhex(s) ==
    IF s = <<>> THEN Return(<<>>)
    ELSE IF s[1] \in AsciiSpace THEN fromhex(Tail(s))
    ELSE IF Len(s) < 2 \/ ~IsHexDigit(s[1]) \/ ~IsHexDigit(s[2])
         THEN Raise("ValueError")
    ELSE LET rest == fromhex(SliceFrom(s, 2))
         IN  IF rest.kind = "raise" THEN rest
             ELSE Return(<<16 * HexVal(s[1]) + HexVal(s[2])>> \o rest.val)

from_hex_low_nibble_first(hex_string) ==
    LET guid_bytes == fromhex(hex_string)
    IN  IF guid_bytes.kind = "raise" THEN guid_bytes
        ELSE Return(pad_guid([i \in 1..Len(guid_bytes.val) |->
                 (guid_bytes.val[i] % 16) * 16 + guid_bytes.val[i] \div 16]))

\* GUIDFactory.from_hex(hex_string)
from_hex(hex_string) ==
    LET guid_bytes == fromhex(hex_string)
    IN  IF guid_bytes.kind = "raise" THEN guid_bytes
        ELSE Return(pad_guid(guid_bytes.val))

\* b.hex(): two lower-case digits for each byte, the high nibble first
hex(b) ==
    [i \in 1..(2 * Len(b)) |->
        IF i % 2 = 1 THEN LowerHex[(b[(i + 1) \div 2] \div 16) + 1]
        ELSE LowerHex[(b[i \div 2] % 16) + 1]]

to_hex_upper(guid) ==
    [i \in 1..(2 * Len(guid)) |->
        IF i % 2 = 1 THEN UpperHex[(guid[(i + 1) \div 2] \div 16) + 1]
        ELSE UpperHex[(guid[i \div 2] % 16) + 1]]

\* GUIDFactory.to_hex(guid)
to_hex(guid) == hex(guid)

(***************************************************************************)
(* primitives/data_crypto.py                                               *)
(***************************************************************************)
\* hmac.HMAC(key, hashes.SHA256()); update(data); finalize() of the
\* cryptography library: an ideal keyed hash.  The 32-byte value encodes a
\* fingerprint of the key, the length of the message and the message, so
\* that distinct (key, message) pairs of the bounded model get tags that
\* already differ within the first 16 bytes (no collisions).
HMAC_SHA256(key, data) ==
    LET fingerprint == ByteSum(key) % 256
    IN  [i \in 1..DigestLen |->
            IF i = 1 THEN fingerprint
            ELSE IF i = 2 THEN Len(data) % 256
            ELSE IF i - 2 <= Len(data) THEN data[i - 2]
            ELSE (7 * i + fingerprint) % 256]

compute_hmac_nokeycheck(data, key, truncate_to) ==
    IF truncate_to > 32 THEN Raise("ValueError")
    ELSE Return(SliceTo(HMAC_SHA256(key, data), truncate_to))

compute_hmac(data, key, truncate_to) ==
    IF Len(key) # 32 THEN Raise("ValueError")
    ELSE IF truncate_to > 32 THEN Raise("ValueError")
    ELSE Return(SliceTo(HMAC_SHA256(key, data), truncate_to))

\* hmac.compare_digest on two bytes objects: equality of length and content
compare_digest(a, b) == a = b

validate_hmac_constant_time_nocatch(data, key, expected_hmac, truncate_to) ==
    LET computed_hmac == compute_hmac(data, key, truncate_to)
    IN  IF computed_hmac.kind = "raise" THEN computed_hmac
        ELSE Return(compare_digest(computed_hmac.val, expected_hmac))

validate_hmac_constant_time(data, key, expected_hmac, truncate_to) ==
    LET computed_hmac == compute_hmac(data, key, truncate_to)
    IN  IF computed_hmac.kind = "raise"
        THEN IF computed_hmac.exc \in {"ValueError", "TypeError"}
             THEN Return(FALSE)
             ELSE computed_hmac
        ELSE Return(compare_digest(computed_hmac.val, expected_hmac))

compute_packet_hmac_payload_only(guid, payload, key) ==
    IF Len(guid) # 6 THEN Raise("ValueError")
    ELSE compute_hmac(payload, key, 16)

compute_packet_hmac_padding(guid, payload, key) ==
    compute_hmac(pad_guid(guid) \o payload, key, 16)

compute_packet_hmac_nocheck(guid, payload, key) ==
    compute_hmac(guid \o payload, key, 16)

compute_packet_hmac(guid, payload, key) ==
    IF Len(guid) # 6 THEN Raise("ValueError")
    ELSE compute_hmac(guid \o payload, key, 16)

validate_packet_hmac_nocatch(guid, payload, key, expected_hmac) ==
    LET computed_hmac == compute_packet_hmac(guid, payload, key)
    IN  IF computed_hmac.kind = "raise" THEN computed_hmac
        ELSE Return(compare_digest(computed_hmac.val, expected_hmac))

validate_packet_hmac(guid, payload, key, expected_hmac) ==
    LET computed_hmac == compute_packet_hmac(guid, payload, key)
    IN  IF computed_hmac.kind = "raise"
        THEN IF computed_hmac.exc \in {"ValueError", "TypeError"}
             THEN Return(FALSE)
             ELSE computed_hmac
        ELSE Return(compare_digest(computed_hmac.val, expected_hmac))

(***************************************************************************)
(* transport/packet.py                                                     *)
(***************************************************************************)
Packet_unchecked(hmac, guid, payload) ==
    Return([type |-> "Packet", hmac |-> hmac, guid |-> guid,
            payload |-> payload])

\* the dataclass constructor followed by __post_init__
Packet(hmac, guid, payload) ==
    IF Len(hmac) # 16 THEN Raise("ValueError")
    ELSE IF Len(guid) # 6 THEN Raise("ValueError")
    ELSE Return([type |-> "Packet", hmac |-> hmac, guid |-> guid,
                 payload |-> payload])

to_bytes_guid_first(self) == self.guid \o self.hmac \o self.payload

to_bytes_length_prefixed(self) ==
    <<Len(self.payload)>> \o self.hmac \o self.guid \o self.payload

to_bytes(self) == self.hmac \o self.guid \o self.payload

\* Packet.__len__
Packet_len(self) == 16 + 6 + Len(self.payload)

from_bytes_short_payload(data) ==
    IF Len(data) < 22 THEN Return(NoneVal)
    ELSE Packet(Slice(data, 0, 16), Slice(data, 16, 22), SliceFrom(data, 23))

from_bytes_off_by_one(data) ==
    IF Len(data) <= MinPacketLen THEN Return(NoneVal)
    ELSE Packet(Slice(data, 0, 16), Slice(data, 16, 22), SliceFrom(data, 22))

from_bytes(data) ==
    IF Len(data) < 22 THEN Return(NoneVal)
    ELSE LET made == Packet(Slice(data, 0, 16), Slice(data, 16, 22),
                            SliceFrom(data, 22))
         IN  IF made.kind = "raise"
             THEN IF made.exc \in {"TypeError", "ValueError"}
                  THEN Return(NoneVal)
                  ELSE made
             ELSE made

(***************************************************************************)
(* transport/packet_builder.py                                             *)
(***************************************************************************)
build_packet_raw_mac_input(guid, payload, key) ==
    LET padded_guid == pad_guid(guid)
        hmac_value  == compute_hmac(guid \o payload, key, 16)
    IN  IF hmac_value.kind = "raise" THEN hmac_value
        ELSE Packet(hmac_value.val, padded_guid, payload)

build_packet_payload_first(guid, payload, key) ==
    LET padded_guid == pad_guid(guid)
        hmac_value  == compute_hmac(payload \o padded_guid, key, 16)
    IN  IF hmac_value.kind = "raise" THEN hmac_value
        ELSE Packet(hmac_value.val, padded_guid, payload)

build_packet_rejecting(guid, payload, key) ==
    LET hmac_value == compute_packet_hmac(guid, payload, key)
    IN  IF hmac_value.kind = "raise" THEN hmac_value
        ELSE Packet(hmac_value.val, guid, payload)

build_packet(guid, payload, key) ==
    LET padded_guid == pad_guid(guid)
        hmac_value  == compute_packet_hmac(padded_guid, payload, key)
    IN  IF hmac_value.kind = "raise" THEN hmac_value
        ELSE Packet(hmac_value.val, padded_guid, payload)

build_and_serialize(guid, payload, key) ==
    LET packet_ == build_packet(guid, payload, key)
    IN  IF packet_.kind = "raise" THEN packet_
        ELSE Return(to_bytes(packet_.val))

parse_packet(data) == from_bytes(data)

\* packet.guid on None raises AttributeError
validate_hmac(packet_, key) ==
    IF packet_ = NoneVal THEN Raise("AttributeError")
    ELSE validate_packet_hmac(packet_.guid, packet_.payload, key,
                              packet_.hmac)

\* The value is the outcome of the call together with the PacketBuilder
\* methods the call went through, in order.
parse_and_validate_raising(data, key) ==
    LET packet_ == parse_packet(data)
    IN  IF packet_.kind = "raise"
        THEN [ret |-> packet_, calls |-> <<"parse_packet">>]
        ELSE IF packet_.val = NoneVal
        THEN [ret |-> Return(NoneVal), calls |-> <<"parse_packet">>]
        ELSE LET valid == validate_hmac(packet_.val, key)
             IN  IF valid.kind = "raise"
                 THEN [ret |-> valid,
                       calls |-> <<"parse_packet", "validate_hmac">>]
                 ELSE IF ~valid.val
                 THEN [ret |-> Raise("ValueError"),
                       calls |-> <<"parse_packet", "validate_hmac">>]
                 ELSE [ret |-> Return(packet_.val),
                       calls |-> <<"parse_packet", "validate_hmac">>]

parse_and_validate_unchecked(data, key) ==
    LET packet_ == parse_packet(data)
    IN  IF packet_.kind = "raise"
        THEN [ret |-> packet_, calls |-> <<"parse_packet">>]
        ELSE IF packet_.val = NoneVal
        THEN [ret |-> Return(NoneVal), calls |-> <<"parse_packet">>]
        ELSE [ret |-> Return(packet_.val), calls |-> <<"parse_packet">>]

parse_and_validate(data, key) ==
    LET packet_ == parse_packet(data)
    IN  IF packet_.kind = "raise"
        THEN [ret |-> packet_, calls |-> <<"parse_packet">>]
        ELSE IF packet_.val = NoneVal
        THEN [ret |-> Return(NoneVal), calls |-> <<"parse_packet">>]
        ELSE LET valid == validate_hmac(packet_.val, key)
             IN  IF valid.kind = "raise"
                 THEN [ret |-> valid,
                       calls |-> <<"parse_packet", "validate_hmac">>]
                 ELSE IF ~valid.val
                 THEN [ret |-> Return(NoneVal),
                       calls |-> <<"parse_packet", "validate_hmac">>]
                 ELSE [ret |-> Return(packet_.val),
                       calls |-> <<"parse_packet", "validate_hmac">>]

(***************************************************************************)
(* Inputs of the model.                                                    *)
(***************************************************************************)
SampleByte == 0..MaxByte

SeqsUpTo(S, n) == UNION {[1..k -> S] : k \in 0..n}

\* identifiers given to pad_guid: every byte string up to MaxIdLen
GuidInputs == SeqsUpTo(SampleByte, MaxIdLen)

\* identifiers given to the builder: every length up to MaxIdLen, all
\* zero or with one non-zero byte in the first or in the last position
\* (so that an identifier and its zero-padded form, and two identifiers
\* that differ only past the sixth byte, are both present)
BuildGuids ==
    {Zeros(n) : n \in 0..MaxIdLen}
    \cup UNION {{[i \in 1..n |-> IF i = j THEN b ELSE 0] :
                    j \in {1, n}, b \in SampleByte} : n \in 1..MaxIdLen}

\* payloads: every length up to MaxPayloadLen, one byte value repeated
PayloadInputs == {[i \in 1..n |-> b] : n \in 0..MaxPayloadLen, b \in SampleByte}

\* the two keys of the unit tests: b'\x00' * 32 and b'\xff' * 32
ValidKeys == {[i \in 1..KeyLen |-> b] : b \in {0, 255}}

\* keys of a wrong length: empty, one byte short, one byte long
BadKeys == {Zeros(n) : n \in {0, KeyLen - 1, KeyLen + 1}}

KeyInputs == ValidKeys \cup BadKeys

\* blobs of an untrusted peer: every length up to MaxBlobLen
BlobInputs == {[i \in 1..n |-> b] : n \in 0..MaxBlobLen, b \in SampleByte}

\* hmac arguments given to the Packet constructor: one byte short, exact,
\* one byte long
HmacInputs ==
    {[i \in 1..n |-> b] : n \in (HmacLen - 1)..(HmacLen + 1), b \in SampleByte}

\* truncate_to arguments
TruncateInputs == (0 - MaxNegTruncate)..MaxTruncate

\* expected_hmac arguments for a message d: the tag of d under each valid
\* key cut to several lengths, and such a tag with its first byte changed
ExpectedInputs(d) ==
    LET tags == {SliceTo(HMAC_SHA256(k, d), n) :
                    k \in ValidKeys,
                    n \in {0, HmacLen - 1, HmacLen, DigestLen - 1, DigestLen}}
    IN  tags \cup {[t EXCEPT ![1] = (@ + 1) % 256] : t \in tags \ {<<>>}}

\* characters put into an otherwise uniform string: white space, a letter
\* that is no digit, a sign, upper-case digits
OddChars == {" ", "\t", "g", "-", "A", "F"}

\* strings given to from_hex: every length up to MaxHexLen, of consecutive
\* lower-case digits, or of one repeated character with one character
\* replaced
HexStrings ==
    {[i \in 1..n |-> LowerHex[((a + (i - 1) * st) % 16) + 1]] :
        n \in 0..MaxHexLen, a \in 0..15, st \in 0..MaxHexStep}
    \cup UNION {{[i \in 1..n |-> IF i = j THEN d ELSE c] :
                    j \in 1..n, c \in {"0", "a", " "}, d \in OddChars} :
                 n \in 1..MaxHexLen}

\* byte strings given to to_hex: every length up to MaxIdLen, bytes in
\* arithmetic progression from values on both sides of each digit boundary
ToHexInputs ==
    {[i \in 1..n |-> (a + (i - 1) * st) % 256] :
        n \in 0..MaxIdLen, a \in {0, 9, 10, 15, 16, 171, 250, 255},
        st \in {0, 1, 17}}

\* the identifiers of the protocol width among those given to the builder
WellFormedGuids == {g \in BuildGuids : Len(g) = GuidLen}

\* expected_hmac arguments of validate_packet_hmac: no bytes at all, or
\* the tag of a well-formed (identifier, payload) pair under the key
\* b'\x00' * 32
PacketTags ==
    {<<>>} \cup {compute_packet_hmac(g, p, Zeros(KeyLen)).val :
                    g \in WellFormedGuids, p \in PayloadInputs}

(***************************************************************************)
(* State.                                                                  *)
(***************************************************************************)
VARIABLES
    op,       \* name of the last call ("init" before the first, "idle"
              \* when the caller has started over)
    guid,     \* identifier argument of the last sender-side call
    payload,  \* payload argument of the last build call
    key,      \* key argument of the last build call
    built,    \* outcome of the last build call
    sent,     \* bytes build_and_serialize returned (<<>> if none)
    data,     \* bytes presented to the receiver
    packet,   \* the Packet object the caller holds (NoneVal if none)
    rkey,     \* key argument of the last validate call
    ret,      \* outcome of the last call that is not a build call
    calls,    \* PacketBuilder methods the last parse_and_validate ran
    arg,      \* arguments of the last call to the Packet constructor or
              \* to a primitive (NoCall if the last call was another)
    the_key,  \* the key object the concurrent callers share
    thread,   \* per thread: position in its call (pc), the call it made,
              \* and the result it got
    frame,    \* per activation record: the parameters and local variables
              \* of the call that runs in it
    usock,    \* per UDPSocket object: self.socket (NoneVal or the socket
              \* object of an OS socket)
    fds,      \* the OS sockets by number: state, whether bound, the
              \* datagrams waiting to be read
    ures,     \* the last UDPSocket call: object, method, self.socket
              \* before the call, outcome, datagram read and key used
    hist      \* what an observer of the network has noted: one accepted
              \* datagram with its key, the packets sent, the tuples
              \* receive_packet returned

\* the state of the sequential caller
svars == <<op, guid, payload, key, built, sent, data, packet, rkey, ret, calls,
          arg>>

\* the state of the concurrent callers
cvars == <<the_key, thread, frame>>

\* the state of the UDPSocket objects, the OS and the network
uvars == <<usock, fds, ures, hist>>

vars == <<svars, cvars, uvars>>

\* the threads of the concurrent callers
Threads == 1..NumThreads

\* a thread that is not in a call
IdleThread == [pc |-> "idle", call |-> NoCall, result |-> NoCall]

\* an activation record no call has written to: the parameters guid,
\* payload, data, packet and the locals padded_guid, hmac_value
EmptyFrame ==
    [guid |-> <<>>, payload |-> <<>>, data |-> <<>>, packet |-> NoneVal,
     padded_guid |-> <<>>, hmac_value |-> <<>>]

\* no thread has called anything yet
NoThreads ==
    /\ thread = [t \in Threads |-> IdleThread]
    /\ frame = [f \in Threads |-> EmptyFrame]

\* the UDPSocket objects: one that sends and one that listens
Objs == {"tx", "rx"}

\* the numbers the OS gives to sockets
Fds == 1..MaxSockets

\* an OS socket number not given out yet
UnusedFd == [state |-> "unused", bound |-> FALSE, inbox |-> <<>>]

\* no UDPSocket call has been made
NoUCall ==
    [obj |-> "", op |-> "", before |-> NoneVal, args |-> <<>>,
     outcome |-> NoCall, data |-> NoneVal]

\* the observer has noted nothing
NoHist == [captured |-> NoneVal, sent |-> <<>>, got |-> <<>>]

\* UDPSocket.__init__ has run for every object: self.socket = None
NoSockets ==
    /\ usock = [o \in Objs |-> NoneVal]
    /\ fds = [i \in Fds |-> UnusedFd]
    /\ ures = NoUCall
    /\ hist = NoHist

Init ==
    /\ op = "init"
    /\ guid = <<>>
    /\ payload = <<>>
    /\ key = <<>>
    /\ built = NoCall
    /\ sent = <<>>
    /\ data = <<>>
    /\ packet = NoneVal
    /\ rkey = <<>>
    /\ ret = NoCall
    /\ calls = <<>>
    /\ arg = NoCall
    /\ the_key = <<>>
    /\ NoThreads
    /\ NoSockets

\* no call sequence is under way
Idle == op \in {"init", "idle"}

\* GUIDFactory.pad_guid(g)
PadGuid ==
    /\ Idle
    /\ \E g \in GuidInputs :
          /\ op' = "pad_guid"
          /\ guid' = g
          /\ ret' = Return(pad_guid(g))
    /\ payload' = <<>> /\ key' = <<>> /\ built' = NoCall
    /\ sent' = <<>> /\ data' = <<>> /\ packet' = NoneVal
    /\ rkey' = <<>> /\ calls' = <<>> /\ arg' = NoCall
    /\ UNCHANGED <<cvars, uvars>>

\* GUIDFactory.generate()
Generate ==
    /\ Idle
    /\ \E g \in generate : ret' = Return(g)
    /\ op' = "generate"
    /\ guid' = <<>> /\ payload' = <<>> /\ key' = <<>> /\ built' = NoCall
    /\ sent' = <<>> /\ data' = <<>> /\ packet' = NoneVal
    /\ rkey' = <<>> /\ calls' = <<>> /\ arg' = NoCall
    /\ UNCHANGED <<cvars, uvars>>

\* GUIDFactory.from_hex(s)
FromHex ==
    /\ Idle
    /\ \E s \in HexStrings :
          /\ arg' = [hex_string |-> s]
          /\ ret' = from_hex(s)
    /\ op' = "from_hex"
    /\ guid' = <<>> /\ payload' = <<>> /\ key' = <<>> /\ built' = NoCall
    /\ sent' = <<>> /\ data' = <<>> /\ packet' = NoneVal
    /\ rkey' = <<>> /\ calls' = <<>>
    /\ UNCHANGED <<cvars, uvars>>

\* GUIDFactory.to_hex(x)
ToHex ==
    /\ Idle
    /\ \E x \in ToHexInputs :
          /\ arg' = [guid |-> x]
          /\ ret' = Return(to_hex(x))
    /\ op' = "to_hex"
    /\ guid' = <<>> /\ payload' = <<>> /\ key' = <<>> /\ built' = NoCall
    /\ sent' = <<>> /\ data' = <<>> /\ packet' = NoneVal
    /\ rkey' = <<>> /\ calls' = <<>>
    /\ UNCHANGED <<cvars, uvars>>

\* GUIDFactory.to_hex(GUIDFactory.from_hex(s)): to_hex on the identifier
\* from_hex has just returned
ToHexOfFromHex ==
    /\ op = "from_hex"
    /\ ret.kind = "return"
    /\ op' = "to_hex(from_hex)"
    /\ ret' = Return(to_hex(ret.val))
    /\ UNCHANGED <<guid, payload, key, built, sent, data, packet, rkey, calls,
                   arg>>
    /\ UNCHANGED <<cvars, uvars>>

\* GUIDFactory.from_hex(GUIDFactory.to_hex(x)): from_hex on the string
\* to_hex has just returned
FromHexOfToHex ==
    /\ op = "to_hex"
    /\ op' = "from_hex(to_hex)"
    /\ ret' = from_hex(ret.val)
    /\ UNCHANGED <<guid, payload, key, built, sent, data, packet, rkey, calls,
                   arg>>
    /\ UNCHANGED <<cvars, uvars>>

\* PacketBuilder.build_packet(g, p, k)
BuildPacket ==
    /\ Idle
    /\ \E g \in BuildGuids, p \in PayloadInputs, k \in KeyInputs :
          /\ op' = "build_packet"
          /\ guid' = g /\ payload' = p /\ key' = k
          /\ built' = build_packet(g, p, k)
    /\ packet' = IF built'.kind = "return" THEN built'.val ELSE NoneVal
    /\ sent' = <<>> /\ data' = <<>>
    /\ rkey' = <<>> /\ ret' = NoCall /\ calls' = <<>> /\ arg' = NoCall
    /\ UNCHANGED <<cvars, uvars>>

\* PacketBuilder.build_and_serialize(g, p, k); the bytes go on the wire
BuildAndSerialize ==
    /\ Idle
    /\ \E g \in BuildGuids, p \in PayloadInputs, k \in KeyInputs :
          /\ op' = "build_and_serialize"
          /\ guid' = g /\ payload' = p /\ key' = k
          /\ built' = build_and_serialize(g, p, k)
    /\ sent' = IF built'.kind = "return" THEN built'.val ELSE <<>>
    /\ data' = sent'
    /\ packet' = NoneVal
    /\ rkey' = <<>> /\ ret' = NoCall /\ calls' = <<>> /\ arg' = NoCall
    /\ UNCHANGED <<cvars, uvars>>

\* the wire alters the byte at one position of a freshly built blob
Tamper ==
    /\ op = "build_and_serialize"
    /\ built.kind = "return"
    /\ \E i \in 1..Len(data), d \in 1..MaxDelta :
          data' = [data EXCEPT ![i] = (@ + d) % 256]
    /\ op' = "tamper"
    /\ UNCHANGED <<guid, payload, key, built, sent, packet, rkey, ret, calls, arg>>
    /\ UNCHANGED <<cvars, uvars>>

\* an untrusted peer puts bytes of its own on the wire
Inject ==
    /\ Idle
    /\ \E blob \in BlobInputs :
          /\ op' = "inject"
          /\ data' = blob
    /\ guid' = <<>> /\ payload' = <<>> /\ key' = <<>> /\ built' = NoCall
    /\ sent' = <<>> /\ packet' = NoneVal
    /\ rkey' = <<>> /\ ret' = NoCall /\ calls' = <<>> /\ arg' = NoCall
    /\ UNCHANGED <<cvars, uvars>>

\* bytes are on the wire and the receiver has not looked at them yet
Arrived ==
    \/ op = "build_and_serialize" /\ built.kind = "return"
    \/ op \in {"tamper", "inject"}

\* Packet.from_bytes(data)
FromBytes ==
    /\ Arrived
    /\ op' = "from_bytes"
    /\ ret' = from_bytes(data)
    /\ packet' = IF ret'.kind = "return" THEN ret'.val ELSE NoneVal
    /\ UNCHANGED <<guid, payload, key, built, sent, data, rkey, calls, arg>>
    /\ UNCHANGED <<cvars, uvars>>

\* PacketBuilder.parse_packet(data)
ParsePacket ==
    /\ Arrived
    /\ op' = "parse_packet"
    /\ ret' = parse_packet(data)
    /\ packet' = IF ret'.kind = "return" THEN ret'.val ELSE NoneVal
    /\ UNCHANGED <<guid, payload, key, built, sent, data, rkey, calls, arg>>
    /\ UNCHANGED <<cvars, uvars>>

\* compute_hmac(d, k, t)
ComputeHmac ==
    /\ Idle
    /\ \E d \in PayloadInputs, k \in KeyInputs, t \in TruncateInputs :
          /\ arg' = [data |-> d, key |-> k, truncate_to |-> t]
          /\ ret' = compute_hmac(d, k, t)
    /\ op' = "compute_hmac"
    /\ guid' = <<>> /\ payload' = <<>> /\ key' = <<>> /\ built' = NoCall
    /\ sent' = <<>> /\ data' = <<>> /\ packet' = NoneVal
    /\ rkey' = <<>> /\ calls' = <<>>
    /\ UNCHANGED <<cvars, uvars>>

\* validate_hmac_constant_time(d, k, e, t)
ValidateHmacConstantTime ==
    /\ Idle
    /\ \E d \in PayloadInputs, k \in KeyInputs, t \in TruncateInputs :
          \E e \in ExpectedInputs(d) :
             /\ arg' = [data |-> d, key |-> k, expected_hmac |-> e,
                        truncate_to |-> t]
             /\ ret' = validate_hmac_constant_time(d, k, e, t)
    /\ op' = "validate_hmac_constant_time"
    /\ guid' = <<>> /\ payload' = <<>> /\ key' = <<>> /\ built' = NoCall
    /\ sent' = <<>> /\ data' = <<>> /\ packet' = NoneVal
    /\ rkey' = <<>> /\ calls' = <<>>
    /\ UNCHANGED <<cvars, uvars>>

\* compute_packet_hmac(g, p, k)
ComputePacketHmac ==
    /\ Idle
    /\ \E g \in BuildGuids, p \in PayloadInputs, k \in KeyInputs :
          /\ arg' = [guid |-> g, payload |-> p, key |-> k]
          /\ ret' = compute_packet_hmac(g, p, k)
    /\ op' = "compute_packet_hmac"
    /\ guid' = <<>> /\ payload' = <<>> /\ key' = <<>> /\ built' = NoCall
    /\ sent' = <<>> /\ data' = <<>> /\ packet' = NoneVal
    /\ rkey' = <<>> /\ calls' = <<>>
    /\ UNCHANGED <<cvars, uvars>>

\* validate_packet_hmac(g, p, k, e)
ValidatePacketHmac ==
    /\ Idle
    /\ \E g \in BuildGuids, p \in PayloadInputs, k \in KeyInputs,
          e \in PacketTags :
          /\ arg' = [guid |-> g, payload |-> p, key |-> k,
                     expected_hmac |-> e]
          /\ ret' = validate_packet_hmac(g, p, k, e)
    /\ op' = "validate_packet_hmac"
    /\ guid' = <<>> /\ payload' = <<>> /\ key' = <<>> /\ built' = NoCall
    /\ sent' = <<>> /\ data' = <<>> /\ packet' = NoneVal
    /\ rkey' = <<>> /\ calls' = <<>>
    /\ UNCHANGED <<cvars, uvars>>

\* Packet(hmac=h, guid=g, payload=p)
Construct ==
    /\ Idle
    /\ \E h \in HmacInputs, g \in BuildGuids, p \in PayloadInputs :
          /\ arg' = [hmac |-> h, guid |-> g, payload |-> p]
          /\ ret' = Packet(h, g, p)
    /\ op' = "Packet"
    /\ packet' = IF ret'.kind = "return" THEN ret'.val ELSE NoneVal
    /\ guid' = <<>> /\ payload' = <<>> /\ key' = <<>> /\ built' = NoCall
    /\ sent' = <<>> /\ data' = <<>> /\ rkey' = <<>> /\ calls' = <<>>
    /\ UNCHANGED <<cvars, uvars>>

\* the caller has just obtained a Packet
Holding ==
    /\ op \in {"Packet", "build_packet", "from_bytes"}
    /\ packet # NoneVal

\* the caller still holds the Packet an operation has been applied to
\* (further calls are followed for Packets made here or parsed from bytes
\* as they were sent; one parsed from other bytes is used once)
Kept ==
    /\ op \in {"to_bytes", "len", "validate_hmac"}
    /\ packet # NoneVal
    /\ data = sent

\* packet.to_bytes()
ToBytes ==
    /\ Holding \/ Kept
    /\ op' = "to_bytes"
    /\ ret' = Return(to_bytes(packet))
    /\ UNCHANGED <<guid, payload, key, built, sent, data, packet, rkey, calls,
                   arg>>
    /\ UNCHANGED <<cvars, uvars>>

\* len(packet)
PacketLen ==
    /\ Holding \/ Kept
    /\ op' = "len"
    /\ ret' = Return(Packet_len(packet))
    /\ UNCHANGED <<guid, payload, key, built, sent, data, packet, rkey, calls,
                   arg>>
    /\ UNCHANGED <<cvars, uvars>>

ValidateHmac_storing ==
    /\ \/ op \in {"build_packet", "parse_packet"} /\ packet # NoneVal
       \/ Kept
    /\ \E k \in KeyInputs :
          /\ rkey' = k
          /\ ret' = validate_hmac(packet, k)
          /\ packet' =
                IF Len(k) = KeyLen
                THEN [packet EXCEPT !.hmac =
                         compute_packet_hmac(packet.guid, packet.payload, k).val]
                ELSE packet
    /\ op' = "validate_hmac"
    /\ UNCHANGED <<guid, payload, key, built, sent, data, calls, arg>>
    /\ UNCHANGED <<cvars, uvars>>

\* PacketBuilder.validate_hmac(packet, k) on the Packet the caller holds
ValidateHmac ==
    /\ \/ op \in {"build_packet", "parse_packet"} /\ packet # NoneVal
       \/ Kept
    /\ \E k \in KeyInputs :
          /\ rkey' = k
          /\ ret' = validate_hmac(packet, k)
    /\ op' = "validate_hmac"
    /\ UNCHANGED <<guid, payload, key, built, sent, data, packet, calls, arg>>
    /\ UNCHANGED <<cvars, uvars>>

\* PacketBuilder.parse_and_validate(data, k)
ParseAndValidate ==
    /\ Arrived
    /\ \E k \in KeyInputs :
          /\ rkey' = k
          /\ ret' = parse_and_validate(data, k).ret
          /\ calls' = parse_and_validate(data, k).calls
    /\ op' = "parse_and_validate"
    /\ packet' = IF ret'.kind = "return" THEN ret'.val ELSE NoneVal
    /\ UNCHANGED <<guid, payload, key, built, sent, data, arg>>
    /\ UNCHANGED <<cvars, uvars>>

\* the caller drops what it holds and starts afresh; nothing of the
\* earlier calls is kept anywhere (the API has no state of its own)
StartOver ==
    /\ ~Idle
    /\ op' = "idle"
    /\ guid' = <<>> /\ payload' = <<>> /\ key' = <<>> /\ built' = NoCall
    /\ sent' = <<>> /\ data' = <<>> /\ packet' = NoneVal
    /\ rkey' = <<>> /\ ret' = NoCall /\ calls' = <<>> /\ arg' = NoCall
    /\ UNCHANGED <<cvars, uvars>>

Next ==
    \/ PadGuid
    \/ Generate
    \/ FromHex
    \/ ToHex
    \/ ToHexOfFromHex
    \/ FromHexOfToHex
    \/ BuildPacket
    \/ BuildAndSerialize
    \/ Tamper
    \/ Inject
    \/ FromBytes
    \/ ParsePacket
    \/ ValidateHmac
    \/ ParseAndValidate
    \/ ComputeHmac
    \/ ValidateHmacConstantTime
    \/ ComputePacketHmac
    \/ ValidatePacketHmac
    \/ Construct
    \/ ToBytes
    \/ PacketLen
    \/ StartOver

Spec == Init /\ [][Next]_vars

(***************************************************************************)
(* Concurrent callers of transport/packet_builder.py.  Every thread makes  *)
(* calls of its own with the one shared key; a call runs statement by      *)
(* statement, and the statements of different threads interleave.          *)
(***************************************************************************)
\* identifiers, payloads and keys of the concurrent calls
ConcGuids == {<<>>, <<1, 2, 3, 4, 5, 6, 7>>}

ConcPayloads == {<<9>>}

\* the shared key: a valid one and one that is a byte short
ConcKeys == {Zeros(KeyLen), Zeros(KeyLen - 1)}

\* packets given to validate_hmac: built under either valid key
ConcPackets ==
    {build_packet(g, p, k).val :
        g \in ConcGuids, p \in ConcPayloads, k \in ValidKeys}

\* bytes given to the parsers: the wire form of those packets, and a blob
\* that is too short
ConcBlobs == {to_bytes(q) : q \in ConcPackets} \cup {<<0>>}

\* the calls a thread can make; key is the shared key object
CallInputs(k) ==
    {[fn |-> f, guid |-> g, payload |-> p, data |-> <<>>,
      packet |-> NoneVal, key |-> k] :
        f \in {"build_packet", "build_and_serialize"},
        g \in ConcGuids, p \in ConcPayloads}
    \cup {[fn |-> f, guid |-> <<>>, payload |-> <<>>, data |-> d,
           packet |-> NoneVal, key |-> k] :
             f \in {"parse_packet", "parse_and_validate"}, d \in ConcBlobs}
    \cup {[fn |-> "validate_hmac", guid |-> <<>>, payload |-> <<>>,
           data |-> <<>>, packet |-> q, key |-> k] : q \in ConcPackets}

Frame_shared(t) == 1

\* the activation record of the call thread t is in: every call gets a
\* record of its own for its parameters and local variables
Frame(t) == t

\* the first statement of each method
Entry(fn) ==
    CASE fn \in {"build_packet", "build_and_serialize"} -> "pad_guid"
      [] fn \in {"parse_packet", "parse_and_validate"} -> "parse_packet"
      [] fn = "validate_hmac" -> "validate_hmac"

\* thread t returns r to its caller (or raises it)
Finish(t, r) ==
    thread' = [thread EXCEPT ![t].pc = "done", ![t].result = r]

\* thread t goes on to statement l
Goto(t, l) == thread' = [thread EXCEPT ![t].pc = l]

InitConc ==
    /\ op = "init"
    /\ guid = <<>>
    /\ payload = <<>>
    /\ key = <<>>
    /\ built = NoCall
    /\ sent = <<>>
    /\ data = <<>>
    /\ packet = NoneVal
    /\ rkey = <<>>
    /\ ret = NoCall
    /\ calls = <<>>
    /\ arg = NoCall
    /\ the_key \in ConcKeys
    /\ NoThreads
    /\ NoSockets

\* thread t calls a PacketBuilder method: the arguments are bound to the
\* parameters in the call's activation record
Call(t) ==
    /\ thread[t].pc = "idle"
    /\ \E c \in CallInputs(the_key) :
          /\ thread' = [thread EXCEPT ![t] =
                [pc |-> Entry(c.fn), call |-> c, result |-> NoCall]]
          /\ frame' = [frame EXCEPT ![Frame(t)] =
                CASE c.fn \in {"build_packet", "build_and_serialize"} ->
                       [@ EXCEPT !.guid = c.guid, !.payload = c.payload]
                  [] c.fn \in {"parse_packet", "parse_and_validate"} ->
                       [@ EXCEPT !.data = c.data]
                  [] c.fn = "validate_hmac" ->
                       [@ EXCEPT !.packet = c.packet]]
    /\ UNCHANGED <<the_key, svars, uvars>>

\* build_packet: padded_guid = GUIDFactory.pad_guid(guid)
StepPadGuid(t) ==
    /\ thread[t].pc = "pad_guid"
    /\ frame' = [frame EXCEPT ![Frame(t)].padded_guid =
                    pad_guid(frame[Frame(t)].guid)]
    /\ Goto(t, "compute_packet_hmac")
    /\ UNCHANGED <<the_key, svars, uvars>>

StepComputePacketHmac_salted(t) ==
    /\ thread[t].pc = "compute_packet_hmac"
    /\ LET r == compute_packet_hmac(frame[Frame(t)].padded_guid,
                                    frame[Frame(t)].payload \o <<t>>, the_key)
       IN  IF r.kind = "raise"
           THEN Finish(t, r) /\ frame' = frame
           ELSE /\ frame' = [frame EXCEPT ![Frame(t)].hmac_value = r.val]
                /\ Goto(t, "Packet")
    /\ UNCHANGED <<the_key, svars, uvars>>

\* build_packet: hmac_value = compute_packet_hmac(padded_guid, payload, key)
StepComputePacketHmac(t) ==
    /\ thread[t].pc = "compute_packet_hmac"
    /\ LET r == compute_packet_hmac(frame[Frame(t)].padded_guid,
                                    frame[Frame(t)].payload, the_key)
       IN  IF r.kind = "raise"
           THEN Finish(t, r) /\ frame' = frame
           ELSE /\ frame' = [frame EXCEPT ![Frame(t)].hmac_value = r.val]
                /\ Goto(t, "Packet")
    /\ UNCHANGED <<the_key, svars, uvars>>

\* build_packet: return Packet(hmac=hmac_value, guid=padded_guid,
\* payload=payload); in build_and_serialize the result is bound to packet
StepPacket(t) ==
    /\ thread[t].pc = "Packet"
    /\ LET r == Packet(frame[Frame(t)].hmac_value,
                       frame[Frame(t)].padded_guid, frame[Frame(t)].payload)
       IN  IF thread[t].call.fn = "build_packet" \/ r.kind = "raise"
           THEN Finish(t, r) /\ frame' = frame
           ELSE /\ frame' = [frame EXCEPT ![Frame(t)].packet = r.val]
                /\ Goto(t, "to_bytes")
    /\ UNCHANGED <<the_key, svars, uvars>>

\* build_and_serialize: return packet.to_bytes()
StepToBytes(t) ==
    /\ thread[t].pc = "to_bytes"
    /\ Finish(t, IF frame[Frame(t)].packet = NoneVal
                 THEN Raise("AttributeError")
                 ELSE Return(to_bytes(frame[Frame(t)].packet)))
    /\ UNCHANGED <<the_key, frame, svars, uvars>>

\* parse_packet: return Packet.from_bytes(data); in parse_and_validate the
\* result is bound to packet, and None is returned at once
StepParsePacket(t) ==
    /\ thread[t].pc = "parse_packet"
    /\ LET r == parse_packet(frame[Frame(t)].data)
       IN  IF thread[t].call.fn = "parse_packet"
           THEN Finish(t, r) /\ frame' = frame
           ELSE /\ frame' = [frame EXCEPT ![Frame(t)].packet = r.val]
                /\ IF r.val = NoneVal THEN Finish(t, Return(NoneVal))
                   ELSE Goto(t, "validate_hmac")
    /\ UNCHANGED <<the_key, svars, uvars>>

\* validate_hmac(packet, key); parse_and_validate returns packet if the
\* answer is True and None if not
StepValidateHmac(t) ==
    /\ thread[t].pc = "validate_hmac"
    /\ LET r == validate_hmac(frame[Frame(t)].packet, the_key)
       IN  IF thread[t].call.fn = "validate_hmac" \/ r.kind = "raise"
           THEN Finish(t, r)
           ELSE Finish(t, IF r.val THEN Return(frame[Frame(t)].packet)
                          ELSE Return(NoneVal))
    /\ UNCHANGED <<the_key, frame, svars, uvars>>

\* the caller of thread t has taken the result: the activation record of
\* the call is gone and the thread is free for its next call
Collect(t) ==
    /\ thread[t].pc = "done"
    /\ thread' = [thread EXCEPT ![t] = IdleThread]
    /\ frame' = [frame EXCEPT ![Frame(t)] = EmptyFrame]
    /\ UNCHANGED <<the_key, svars, uvars>>

NextConc ==
    \/ \E t \in Threads : Call(t)
    \/ \E t \in Threads : StepPadGuid(t)
    \/ \E t \in Threads : StepComputePacketHmac(t)
    \/ \E t \in Threads : StepPacket(t)
    \/ \E t \in Threads : StepToBytes(t)
    \/ \E t \in Threads : StepParsePacket(t)
    \/ \E t \in Threads : StepValidateHmac(t)
    \/ \E t \in Threads : Collect(t)

SpecConc == InitConc /\ [][NextConc]_vars

(***************************************************************************)
(* transport/udp_socket.py.  An OS socket is a number with a state; a      *)
(* datagram is the bytes sent and the address of the sender (the name of   *)
(* the sending object).  sendto to the broadcast address reaches every socket   *)
(* bound to the port that an object holds; recvfrom blocks while nothing   *)
(* waits.                                                                  *)
(***************************************************************************)
\* arguments of send_packet and keys of receive_packet
\* (the listening object sends one packet over and over; the sending
\* object of the delivery scenario sends different ones)
UdpGuids(o) ==
    IF o = "tx" THEN {<<1>>, <<1, 2, 3, 4, 5, 6, 7>>}
    ELSE {<<1, 2, 3, 4, 5, 6, 7>>}

UdpPayloads(o) == IF o = "tx" THEN {<<>>, <<9>>} ELSE {<<9>>}

UdpSendKeys == {Zeros(KeyLen), Zeros(KeyLen - 1)}

UdpRecvKeys == ValidKeys \cup {Zeros(KeyLen - 1)}

\* datagrams of other nodes: packets under either valid key, and one that
\* is too short to be a packet; their sender has the address "peer"
PeerDatagrams ==
    {[data |-> build_and_serialize(<<2>>, <<9>>, k).val, addr |-> "peer"] :
        k \in ValidKeys}
    \cup {[data |-> <<0>>, addr |-> "peer"]}

\* the Python socket object for the OS socket number i
Sock(i) == [type |-> "socket", fd |-> i]

\* socket.socket(...) followed by the setsockopt calls
OpenFd == [state |-> "open", bound |-> FALSE, inbox |-> <<>>]

\* the OS can still create a socket
CanCreate == \E i \in Fds : fds[i].state = "unused"

\* the number the next socket gets
FreshFd ==
    CHOOSE i \in Fds :
        /\ fds[i].state = "unused"
        /\ \A j \in Fds : fds[j].state = "unused" => i <= j

\* self.create_socket(): a new OS socket is made, stored in self.socket
\* whatever self.socket held, and returned to the caller.  Nothing closes
\* the socket that is dropped this way: the caller who was handed it by
\* the earlier create_socket() still holds it, so it stays open (what
\* waits there is never read and is not kept here).
create_socket(o) ==
    [usock |-> [usock EXCEPT ![o] = Sock(FreshFd)],
     fds |-> [i \in Fds |->
                IF i = FreshFd THEN OpenFd
                ELSE IF usock[o] = Sock(i) THEN [fds[i] EXCEPT !.inbox = <<>>]
                ELSE fds[i]]]

\* if self.socket is None: self.create_socket()
on_demand(o) ==
    IF usock[o] = NoneVal THEN create_socket(o)
    ELSE [usock |-> usock, fds |-> fds]

\* the method can run: it needs no new socket or the OS has one to give
CanRun(o) == usock[o] # NoneVal \/ CanCreate

sendto_twice(socks, table, from, bytes) ==
    [j \in Fds |->
        IF /\ table[j].state = "open" /\ table[j].bound
           /\ \E o \in Objs : socks[o] = Sock(j)
           /\ Len(table[j].inbox) < MaxInbox
        THEN [table[j] EXCEPT
                 !.inbox = Append(Append(@, [data |-> bytes, addr |-> from]),
                                  [data |-> bytes, addr |-> from])]
        ELSE table[j]]

\* sock.sendto(data, (host, port)) by the object from: the datagram is queued at
\* every bound open socket an object holds, unless that queue is full
sendto(socks, table, from, bytes) ==
    [j \in Fds |->
        IF /\ table[j].state = "open" /\ table[j].bound
           /\ \E o \in Objs : socks[o] = Sock(j)
           /\ Len(table[j].inbox) < MaxInbox
        THEN [table[j] EXCEPT
                 !.inbox = Append(@, [data |-> bytes, addr |-> from])]
        ELSE table[j]]

\* the record of a UDPSocket call
UCall(o, name, args, outcome, dgram) ==
    [obj |-> o, op |-> name, before |-> usock[o], args |-> args,
     outcome |-> outcome, data |-> dgram]

\* o.create_socket()
CreateSocket(o) ==
    /\ CanCreate
    /\ usock' = create_socket(o).usock
    /\ fds' = create_socket(o).fds
    /\ ures' = UCall(o, "create_socket", <<>>, Return(Sock(FreshFd)),
                     NoneVal)
    /\ UNCHANGED <<hist, svars, cvars>>

\* o.bind(); binding a socket that is bound already fails in the OS
Bind(o) ==
    /\ CanRun(o)
    /\ LET e == on_demand(o)
           i == e.usock[o].fd
       IN  /\ usock' = e.usock
           /\ IF e.fds[i].bound
              THEN /\ fds' = e.fds
                   /\ ures' = UCall(o, "bind", <<>>, Raise("OSError"),
                                    NoneVal)
              ELSE /\ fds' = [e.fds EXCEPT ![i].bound = TRUE]
                   /\ ures' = UCall(o, "bind", <<>>, Return(NoneVal),
                                    NoneVal)
    /\ UNCHANGED <<hist, svars, cvars>>

Close_keeping(o) ==
    /\ IF usock[o] # NoneVal
       THEN /\ fds' = [fds EXCEPT ![usock[o].fd] =
                         [state |-> "closed", bound |-> FALSE,
                          inbox |-> <<>>]]
            /\ usock' = usock
       ELSE UNCHANGED <<usock, fds>>
    /\ ures' = UCall(o, "close", <<>>, Return(NoneVal), NoneVal)
    /\ UNCHANGED <<hist, svars, cvars>>

\* o.close()
Close(o) ==
    /\ IF usock[o] # NoneVal
       THEN /\ fds' = [fds EXCEPT ![usock[o].fd] =
                         [state |-> "closed", bound |-> FALSE,
                          inbox |-> <<>>]]
            /\ usock' = [usock EXCEPT ![o] = NoneVal]
       ELSE UNCHANGED <<usock, fds>>
    /\ ures' = UCall(o, "close", <<>>, Return(NoneVal), NoneVal)
    /\ UNCHANGED <<hist, svars, cvars>>

\* o.send_packet(g, p, k) with the default host and port
SendPacket(o) ==
    /\ CanRun(o)
    /\ \E g \in UdpGuids(o), p \in UdpPayloads(o), k \in UdpSendKeys :
          LET e == on_demand(o)
              data_ == build_and_serialize(g, p, k)
              args == [guid |-> g, payload |-> p, key |-> k]
          IN  /\ usock' = e.usock
              /\ IF data_.kind = "raise"
                 THEN /\ fds' = e.fds
                      /\ ures' = UCall(o, "send_packet", args, data_,
                                       NoneVal)
                 ELSE /\ fds' = sendto(e.usock, e.fds, o, data_.val)
                      /\ ures' = UCall(o, "send_packet", args,
                                       Return(NoneVal),
                                       [data |-> data_.val, addr |-> o])
    /\ UNCHANGED <<svars, cvars>>

ReceivePacket_creating(o) ==
    /\ \E k \in UdpRecvKeys :
          IF usock[o] = NoneVal
          THEN /\ CanCreate
               /\ ures' = UCall(o, "receive_packet", [key |-> k],
                                [kind |-> "blocked"], NoneVal)
               /\ usock' = create_socket(o).usock
               /\ fds' = create_socket(o).fds
          ELSE /\ fds[usock[o].fd].inbox # <<>>
               /\ LET d == Head(fds[usock[o].fd].inbox)
                      packet_ == parse_and_validate(d.data, k).ret
                  IN  /\ fds' = [fds EXCEPT ![usock[o].fd].inbox = Tail(@)]
                      /\ ures' = UCall(o, "receive_packet", [key |-> k],
                            IF packet_.kind = "raise" THEN packet_
                            ELSE IF packet_.val = NoneVal
                                 THEN Raise("ValueError")
                            ELSE Return(<<packet_.val.guid,
                                          packet_.val.payload, d.addr>>),
                            d)
               /\ usock' = usock
    /\ UNCHANGED <<svars, cvars>>

ReceivePacket_unvalidated(o) ==
    /\ \E k \in UdpRecvKeys :
          IF usock[o] = NoneVal
          THEN /\ ures' = UCall(o, "receive_packet", [key |-> k],
                                Raise("RuntimeError"), NoneVal)
               /\ UNCHANGED <<usock, fds>>
          ELSE /\ fds[usock[o].fd].inbox # <<>>
               /\ LET d == Head(fds[usock[o].fd].inbox)
                      packet_ == parse_packet(d.data)
                  IN  /\ fds' = [fds EXCEPT ![usock[o].fd].inbox = Tail(@)]
                      /\ ures' = UCall(o, "receive_packet", [key |-> k],
                            IF packet_.kind = "raise" THEN packet_
                            ELSE IF packet_.val = NoneVal
                                 THEN Raise("ValueError")
                            ELSE Return(<<packet_.val.guid,
                                          packet_.val.payload, d.addr>>),
                            d)
               /\ usock' = usock
    /\ UNCHANGED <<svars, cvars>>

ReceivePacket_once(o) ==
    /\ \E k \in UdpRecvKeys :
          IF usock[o] = NoneVal
          THEN /\ ures' = UCall(o, "receive_packet", [key |-> k],
                                Raise("RuntimeError"), NoneVal)
               /\ UNCHANGED <<usock, fds>>
          ELSE /\ fds[usock[o].fd].inbox # <<>>
               /\ LET d == Head(fds[usock[o].fd].inbox)
                      packet_ == parse_and_validate(d.data, k).ret
                      seen == /\ hist.captured # NoneVal
                              /\ hist.captured.data = d.data
                  IN  /\ fds' = [fds EXCEPT ![usock[o].fd].inbox = Tail(@)]
                      /\ ures' = UCall(o, "receive_packet", [key |-> k],
                            IF packet_.kind = "raise" THEN packet_
                            ELSE IF packet_.val = NoneVal \/ seen
                                 THEN Raise("ValueError")
                            ELSE Return(<<packet_.val.guid,
                                          packet_.val.payload, d.addr>>),
                            d)
               /\ usock' = usock
    /\ UNCHANGED <<svars, cvars>>

\* o.receive_packet(k) with the default buffer size
ReceivePacket(o) ==
    /\ \E k \in UdpRecvKeys :
          IF usock[o] = NoneVal
          THEN /\ ures' = UCall(o, "receive_packet", [key |-> k],
                                Raise("RuntimeError"), NoneVal)
               /\ UNCHANGED <<usock, fds>>
          ELSE /\ fds[usock[o].fd].inbox # <<>>
               /\ LET d == Head(fds[usock[o].fd].inbox)
                      packet_ == parse_and_validate(d.data, k).ret
                  IN  /\ fds' = [fds EXCEPT ![usock[o].fd].inbox = Tail(@)]
                      /\ ures' = UCall(o, "receive_packet", [key |-> k],
                            IF packet_.kind = "raise" THEN packet_
                            ELSE IF packet_.val = NoneVal
                                 THEN Raise("ValueError")
                            ELSE Return(<<packet_.val.guid,
                                          packet_.val.payload, d.addr>>),
                            d)
               /\ usock' = usock
    /\ UNCHANGED <<svars, cvars>>

\* the listening object in use on a network with other nodes: every call
\* of the object in any order, datagrams of other nodes and copies of an
\* accepted datagram arriving in between
CreateSocketCall == CreateSocket("rx")

BindCall == Bind("rx")

CloseCall == Close("rx")

SendPacketCall == SendPacket("rx") /\ UNCHANGED hist

\* the observer may note the datagram a receive_packet call accepts, with
\* the key; it notes when the noted datagram is accepted once more
ReceivePacketCall ==
    /\ ReceivePacket("rx")
    /\ IF ures'.outcome.kind # "return" THEN hist' = hist
       ELSE IF /\ hist.captured # NoneVal
               /\ hist.captured.data = ures'.data.data
               /\ hist.captured.key = ures'.args.key
            THEN hist' = [hist EXCEPT !.captured.again = TRUE]
       ELSE \/ hist' = hist
            \/ hist' = [hist EXCEPT !.captured =
                           [data |-> ures'.data.data, key |-> ures'.args.key,
                            again |-> FALSE]]

\* a datagram reaches the object's bound socket: one of another node, or
\* the noted one again, sent by whoever noted it
Arrive ==
    /\ usock["rx"] # NoneVal
    /\ fds[usock["rx"].fd].bound
    /\ Len(fds[usock["rx"].fd].inbox) < MaxInbox
    /\ \E d \in PeerDatagrams \cup
                 (IF hist.captured = NoneVal THEN {}
                  ELSE {[data |-> hist.captured.data, addr |-> "peer"]}) :
          fds' = [fds EXCEPT ![usock["rx"].fd].inbox = Append(@, d)]
    /\ UNCHANGED <<usock, ures, hist, svars, cvars>>

NextUdp ==
    \/ CreateSocketCall
    \/ BindCall
    \/ CloseCall
    \/ SendPacketCall
    \/ ReceivePacketCall
    \/ Arrive

SpecUdp == Init /\ [][NextUdp]_vars

\* the delivery scenario: the object rx has called bind() and listens, the
\* object tx sends up to MaxSends packets, nothing else is on the network
\* and no datagram is dropped
InitFlow ==
    /\ op = "init"
    /\ guid = <<>>
    /\ payload = <<>>
    /\ key = <<>>
    /\ built = NoCall
    /\ sent = <<>>
    /\ data = <<>>
    /\ packet = NoneVal
    /\ rkey = <<>>
    /\ ret = NoCall
    /\ calls = <<>>
    /\ arg = NoCall
    /\ the_key = <<>>
    /\ NoThreads
    /\ usock = [o \in Objs |-> IF o = "rx" THEN Sock(1) ELSE NoneVal]
    /\ fds = [i \in Fds |->
                IF i = 1 THEN [OpenFd EXCEPT !.bound = TRUE] ELSE UnusedFd]
    /\ ures = NoUCall
    /\ hist = NoHist

\* tx.send_packet(g, p, k); the observer notes the packet if it was sent
FlowSend ==
    /\ Len(hist.sent) < MaxSends
    /\ Len(fds[usock["rx"].fd].inbox) < MaxInbox
    /\ SendPacket("tx")
    /\ hist' = IF ures'.outcome.kind = "return"
               THEN [hist EXCEPT !.sent = Append(@, ures'.args)]
               ELSE hist

\* rx.receive_packet(k) with the key the packets are sent under; the
\* observer notes the tuple returned
FlowReceive ==
    /\ ReceivePacket("rx")
    /\ ures'.args.key = Zeros(KeyLen)
    /\ hist' = IF ures'.outcome.kind = "return"
               THEN [hist EXCEPT !.got = Append(@, ures'.outcome.val)]
               ELSE hist

NextFlow ==
    \/ FlowSend
    \/ FlowReceive

\* what a step of FlowReceive does to the receiver's queue: recvfrom takes
\* the datagram at its head.  FlowReceive is enabled exactly when Dequeue
\* is, and the steps of NextFlow that are Dequeue steps are the
\* FlowReceive steps (FlowSend never shortens the queue).
Dequeue ==
    /\ fds[usock["rx"].fd].inbox # <<>>
    /\ fds' = [fds EXCEPT ![usock["rx"].fd].inbox = Tail(@)]

\* the receiver keeps calling receive_packet: a datagram that waits in its
\* queue is read in the end
SpecFlow == InitFlow /\ [][NextFlow]_vars /\ WF_fds(Dequeue)

(***************************************************************************)
(* Properties.                                                             *)
(***************************************************************************)
\* the receiver was given exactly the bytes build_and_serialize returned
Untouched == sent # <<>> /\ data = sent

\* positions at which the bytes given to the receiver differ from the
\* bytes build_and_serialize returned
Altered == {i \in 1..Len(sent) : data[i] # sent[i]}

\* the last call was parse_and_validate
Validated == op = "parse_and_validate"

\* ret holds a Packet
GotPacket == ret.kind = "return" /\ ret.val # NoneVal

\* C1: a blob built from (guid, payload, key) and parsed with the same key
\* unaltered comes back as a Packet whose guid is pad_guid(guid) and whose
\* payload is the payload.
C1_RoundTrip ==
    (Validated /\ Untouched /\ rkey = key) =>
        /\ GotPacket
        /\ ret.val.guid = pad_guid(guid)
        /\ ret.val.payload = payload

C1_Witness ==
    /\ Validated /\ Untouched /\ rkey = key
    /\ Len(guid) > GuidLen /\ payload # <<>>
    /\ GotPacket

\* C2: a built blob altered at exactly one position (mac, identifier or
\* payload region) and parsed with the key it was built with is rejected
\* with None.
C2_TamperRejected ==
    (Validated /\ sent # <<>> /\ Len(data) = Len(sent)
        /\ Cardinality(Altered) = 1 /\ rkey = key) =>
        ret = Return(NoneVal)

C2_Witness ==
    /\ Validated /\ sent # <<>> /\ rkey = key
    /\ Altered = {HmacLen + 1}
    /\ ret = Return(NoneVal)

\* C3: an unaltered blob parsed with another 32-byte key than the one it
\* was built with, and a blob shorter than 22 bytes, both give the same
\* outcome: the value None is returned, nothing is raised.
C3_WrongKeyLikeMalformed ==
    /\ (Validated /\ Untouched /\ Len(rkey) = KeyLen /\ rkey # key) =>
           ret = Return(NoneVal)
    /\ (Validated /\ Len(data) < MinPacketLen) =>
           ret = Return(NoneVal)

C3_Witness ==
    /\ Validated /\ Untouched /\ Len(rkey) = KeyLen /\ rkey # key
    /\ ret = Return(NoneVal)

\* C4: parse_and_validate never raises: for every blob and every key,
\* also one of a wrong length, it returns a Packet or None.
C4_ParseAndValidateTotal ==
    Validated =>
        /\ ret.kind = "return"
        /\ (ret.val = NoneVal \/ ret.val.type = "Packet")

C4_Witness ==
    /\ Validated
    /\ Len(data) >= MinPacketLen /\ Len(rkey) # KeyLen
    /\ ret = Return(NoneVal)

\* C5: parse_and_validate parses first and validates only a blob that
\* parsed; it returns a Packet only if the blob parsed and validate_hmac
\* holds of the parsed Packet, and then returns that very Packet.
C5_ParseThenValidate ==
    Validated =>
        /\ calls \in {<<"parse_packet">>, <<"parse_packet", "validate_hmac">>}
        /\ Len(calls) = 2 => parse_packet(data) # Return(NoneVal)
        /\ GotPacket =>
              /\ parse_packet(data) # Return(NoneVal)
              /\ validate_hmac(parse_packet(data).val, rkey) = Return(TRUE)
              /\ ret = parse_packet(data)

C5_Witness ==
    /\ Validated /\ GotPacket
    /\ calls = <<"parse_packet", "validate_hmac">>

\* C6: build_packet returns a Packet with guid pad_guid(guid), the payload
\* unchanged and hmac compute_hmac(pad_guid(guid) + payload, key, 16); for
\* an identifier that normalisation changes this is not the MAC of the
\* identifier as supplied.
C6_BuildPacketFields ==
    (op = "build_packet" /\ built.kind = "return") =>
        /\ built.val.guid = pad_guid(guid)
        /\ built.val.payload = payload
        /\ Return(built.val.hmac)
              = compute_hmac(pad_guid(guid) \o payload, key, HmacLen)
        /\ pad_guid(guid) # guid =>
              Return(built.val.hmac)
                 # compute_hmac(guid \o payload, key, HmacLen)

C6_Witness ==
    /\ op = "build_packet" /\ built.kind = "return"
    /\ guid # <<>> /\ Len(guid) < GuidLen /\ payload # <<>>

\* C7: build_packet and build_and_serialize succeed whenever the key has
\* 32 bytes and raise the key-length ValueError, producing nothing,
\* whenever it has not.
C7_BuildKeyLength ==
    op \in {"build_packet", "build_and_serialize"} =>
        IF Len(key) = KeyLen
        THEN built.kind = "return"
        ELSE built = Raise("ValueError") /\ packet = NoneVal /\ sent = <<>>

C7_Witness ==
    /\ op = "build_and_serialize"
    /\ Len(key) = KeyLen + 1
    /\ built.kind = "raise"

\* the Packet the caller holds is the one build_packet returned
FromBuild == built.kind = "return" /\ sent = <<>>

\* C8: a Packet returned by build_packet has a 16-byte hmac and a 6-byte
\* guid, and validate_hmac of it with the key it was built with is True.
C8_BuiltIsAuthentic ==
    /\ (op = "build_packet" /\ built.kind = "return") =>
           Len(built.val.hmac) = HmacLen /\ Len(built.val.guid) = GuidLen
    /\ (op = "validate_hmac" /\ FromBuild /\ rkey = key) =>
           ret = Return(TRUE)

C8_Witness ==
    /\ op = "validate_hmac" /\ FromBuild /\ rkey = key
    /\ Len(guid) # GuidLen
    /\ ret = Return(TRUE)

\* C9: pad_guid never fails and returns 6 bytes: byte i of the result is
\* byte i of the argument where the argument has one and zero where it
\* has not; applying pad_guid to the result changes nothing.
C9_PadGuid ==
    op = "pad_guid" =>
        /\ ret.kind = "return"
        /\ Len(ret.val) = GuidLen
        /\ \A i \in 1..GuidLen :
              ret.val[i] = IF i <= Len(guid) THEN guid[i] ELSE 0
        /\ Len(guid) = GuidLen => ret.val = guid
        /\ pad_guid(ret.val) = ret.val

C9_Witness ==
    /\ op = "pad_guid"
    /\ Len(guid) > GuidLen
    /\ guid[Len(guid)] # 0
    /\ ret.kind = "return"

\* C10: Packet.from_bytes returns None for fewer than 22 bytes and, for 22
\* bytes or more, the Packet with hmac = data[0:16], guid = data[16:22],
\* payload = data[22:], whether or not the hmac is valid under any key.
C10_FromBytes ==
    op = "from_bytes" =>
        IF Len(data) < MinPacketLen
        THEN ret = Return(NoneVal)
        ELSE ret = Return([type |-> "Packet",
                           hmac |-> [i \in 1..HmacLen |-> data[i]],
                           guid |-> [i \in 1..GuidLen |-> data[HmacLen + i]],
                           payload |-> [i \in 1..(Len(data) - MinPacketLen)
                                           |-> data[MinPacketLen + i]]])

\* a forged blob of 22 bytes, valid under no key, still parses
C10_Witness ==
    /\ op = "from_bytes"
    /\ sent = <<>> /\ Len(data) = MinPacketLen
    /\ GotPacket
    /\ \A k \in KeyInputs : validate_hmac(ret.val, k) = Return(FALSE)

\* C11: to_bytes is hmac, then guid, then payload with nothing before,
\* between or after, so it has 22 + len(payload) bytes, which is what
\* len(packet) reports.
C11_ToBytesLayout ==
    /\ op = "to_bytes" =>
          /\ ret.kind = "return"
          /\ Len(ret.val) = MinPacketLen + Len(packet.payload)
          /\ \A i \in 1..Len(ret.val) :
                ret.val[i] = IF i <= HmacLen THEN packet.hmac[i]
                             ELSE IF i <= MinPacketLen
                                  THEN packet.guid[i - HmacLen]
                                  ELSE packet.payload[i - MinPacketLen]
    /\ op = "len" =>
          /\ ret = Return(Len(to_bytes(packet)))
          /\ ret.val = MinPacketLen + Len(packet.payload)

C11_Witness ==
    /\ op = "to_bytes"
    /\ packet.payload = <<>>
    /\ Len(ret.val) = MinPacketLen

\* C12: decoding the encoding of a Packet gives the same Packet, and
\* encoding the decoding of 22 bytes or more gives the same bytes.
C12_CodecInverse ==
    /\ op = "to_bytes" => from_bytes(ret.val) = Return(packet)
    /\ (op = "to_bytes" /\ Len(data) >= MinPacketLen) => ret = Return(data)

C12_Witness ==
    /\ op = "to_bytes"
    /\ Len(data) > MinPacketLen
    /\ ret = Return(data)

\* C18: the constructor raises for an hmac that has not 16 bytes or a guid
\* that has not 6 bytes and accepts every payload; every Packet the caller
\* holds (from the constructor, from_bytes or build_packet) has a 16-byte
\* hmac and a 6-byte guid.
C18_ConstructorInvariants ==
    /\ op = "Packet" =>
          IF Len(arg.hmac) = HmacLen /\ Len(arg.guid) = GuidLen
          THEN /\ ret = Return([type |-> "Packet", hmac |-> arg.hmac,
                                guid |-> arg.guid, payload |-> arg.payload])
               /\ packet = ret.val
          ELSE ret.kind = "raise" /\ packet = NoneVal
    /\ packet # NoneVal =>
          Len(packet.hmac) = HmacLen /\ Len(packet.guid) = GuidLen

C18_Witness ==
    /\ op = "Packet"
    /\ Len(arg.hmac) = HmacLen /\ Len(arg.guid) = GuidLen - 1
    /\ ret.kind = "raise"

\* the full digest of the arguments of the last primitive call
ArgDigest == HMAC_SHA256(arg.key, arg.data)

\* C13: compute_hmac raises when the key has not 32 bytes and when
\* truncate_to > 32; otherwise it returns exactly truncate_to bytes, the
\* first truncate_to bytes of the digest.
C13_ComputeHmac ==
    op = "compute_hmac" =>
        IF Len(arg.key) # KeyLen \/ arg.truncate_to > DigestLen
        THEN ret = Raise("ValueError")
        ELSE /\ ret.kind = "return"
             /\ Len(ret.val) = arg.truncate_to
             /\ \A i \in 1..Len(ret.val) : ret.val[i] = ArgDigest[i]

\* C14: validate_hmac_constant_time never raises; it returns True exactly
\* when compute_hmac succeeds on the same arguments and its tag equals
\* expected_hmac in length and content, and False for a key that has not
\* 32 bytes, for truncate_to > 32 and for a tag of another length than
\* the computed one.
C14_ValidateTotal ==
    op = "validate_hmac_constant_time" =>
        /\ ret.kind = "return"
        /\ ret.val \in BOOLEAN
        /\ ret.val <=>
              /\ Len(arg.key) = KeyLen
              /\ arg.truncate_to <= DigestLen
              /\ compute_hmac(arg.data, arg.key, arg.truncate_to)
                    = Return(arg.expected_hmac)
        /\ (ret.val /\ arg.truncate_to >= 0) =>
              /\ Len(arg.expected_hmac) = arg.truncate_to
              /\ \A i \in 1..arg.truncate_to :
                    arg.expected_hmac[i] = ArgDigest[i]

C14_Witness ==
    /\ op = "validate_hmac_constant_time"
    /\ Len(arg.key) # KeyLen
    /\ arg.expected_hmac = SliceTo(HMAC_SHA256(arg.key, arg.data), HmacLen)
    /\ arg.truncate_to = HmacLen
    /\ ret = Return(FALSE)

(***************************************************************************)
(* Hex codec of identifiers.                                               *)
(***************************************************************************)
\* every character of s is a hexadecimal digit
AllHex(s) == \A i \in 1..Len(s) : IsHexDigit(s[i])

\* every character of s is a lower-case hexadecimal digit
AllLowerHex(s) == \A i \in 1..Len(s) : \E d \in 1..16 : LowerHex[d] = s[i]

\* the bytes an even-length string of hexadecimal digits spells
Spelled(s) ==
    [i \in 1..(Len(s) \div 2) |->
        16 * HexVal(s[2 * i - 1]) + HexVal(s[2 * i])]

\* C15: from_hex(s) fails with a decode error (ValueError) whenever s
\* has a character that is no hexadecimal digit or has odd length;
\* otherwise it returns pad_guid of the bytes s spells, exactly 6 bytes.
C15_FromHex ==
    op = "from_hex" =>
        IF ~AllHex(arg.hex_string) \/ Len(arg.hex_string) % 2 = 1
        THEN ret = Raise("ValueError")
        ELSE /\ ret = Return(pad_guid(Spelled(arg.hex_string)))
             /\ Len(ret.val) = GuidLen

\* C16 as stated: generate(), pad_guid(b) and from_hex(s) each return
\* exactly 6 bytes, and to_hex(x) returns exactly 12 lower-case hexadecimal
\* characters for every byte string x it is called with.
C16_FixedWidthEveryInput ==
    /\ op \in {"generate", "pad_guid"} =>
           ret.kind = "return" /\ Len(ret.val) = GuidLen
    /\ op = "from_hex" /\ ret.kind = "return" => Len(ret.val) = GuidLen
    /\ op \in {"to_hex", "to_hex(from_hex)"} =>
           Len(ret.val) = 2 * GuidLen /\ AllLowerHex(ret.val)

\* C16, amended: generate(), pad_guid(b) and from_hex(s) each return
\* exactly 6 bytes; to_hex(x) returns 2 * len(x) lower-case hexadecimal
\* characters, so exactly 12 for every 6-byte x, among them every
\* identifier generate, pad_guid or from_hex returned.
C16_FixedWidth ==
    /\ op \in {"generate", "pad_guid"} =>
           ret.kind = "return" /\ Len(ret.val) = GuidLen
    /\ op = "from_hex" /\ ret.kind = "return" => Len(ret.val) = GuidLen
    /\ op = "to_hex" =>
           /\ Len(ret.val) = 2 * Len(arg.guid)
           /\ AllLowerHex(ret.val)
           /\ Len(arg.guid) = GuidLen => Len(ret.val) = 2 * GuidLen
    /\ op = "to_hex(from_hex)" =>
           Len(ret.val) = 2 * GuidLen /\ AllLowerHex(ret.val)

\* to_hex has been given the 6 bytes ab ab ab ab ab ab
C16_Witness ==
    /\ op = "to_hex"
    /\ arg.guid = [i \in 1..GuidLen |-> 171]
    /\ ret.val = [i \in 1..(2 * GuidLen) |-> IF i % 2 = 1 THEN "a" ELSE "b"]

\* C17: hex codec round trip: to_hex(from_hex(s)) = s for every string s
\* of exactly 12 lower-case hexadecimal characters, and
\* from_hex(to_hex(g)) = g for every 6-byte identifier g.
C17_HexRoundTrip ==
    /\ (/\ op = "to_hex(from_hex)"
        /\ Len(arg.hex_string) = 2 * GuidLen
        /\ AllLowerHex(arg.hex_string))
           => ret = Return(arg.hex_string)
    /\ op = "from_hex(to_hex)" /\ Len(arg.guid) = GuidLen
           => ret = Return(arg.guid)

\* the string 456789abcdef has gone through from_hex and to_hex
C17_Witness ==
    /\ op = "to_hex(from_hex)"
    /\ arg.hex_string = <<"4", "5", "6", "7", "8", "9",
                          "a", "b", "c", "d", "e", "f">>
    /\ ret.kind = "return"

(***************************************************************************)
(* Packets are values.                                                     *)
(***************************************************************************)
\* the Packet the caller holds, as it was when it was constructed: by the
\* constructor call recorded in arg, by build_packet, or from the bytes
\* presented to the receiver
AsConstructed ==
    IF arg # NoCall
    THEN [type |-> "Packet", hmac |-> arg.hmac, guid |-> arg.guid,
          payload |-> arg.payload]
    ELSE IF built.kind = "return" /\ sent = <<>> THEN built.val
    ELSE from_bytes(data).val

\* C19: a Packet is never mutated after construction: in every reachable
\* state the Packet the caller holds has the hmac, guid and payload it was
\* constructed with, and so still has len(hmac) = 16 and len(guid) = 6,
\* whatever operations of the API have been applied to it since.
C19_NoMutation ==
    packet # NoneVal =>
        /\ packet = AsConstructed
        /\ Len(packet.hmac) = HmacLen
        /\ Len(packet.guid) = GuidLen

\* a Packet from build_packet has been through validate_hmac with a key
\* other than the one it was built with, and then through to_bytes
C19_Witness ==
    /\ op = "to_bytes"
    /\ packet # NoneVal
    /\ built.kind = "return" /\ sent = <<>>
    /\ Len(rkey) = KeyLen /\ rkey # key

(***************************************************************************)
(* Concurrent use.                                                         *)
(***************************************************************************)
\* what the call c returns when it runs alone
Alone(c) ==
    CASE c.fn = "build_packet" -> build_packet(c.guid, c.payload, c.key)
      [] c.fn = "build_and_serialize" ->
             build_and_serialize(c.guid, c.payload, c.key)
      [] c.fn = "parse_packet" -> parse_packet(c.data)
      [] c.fn = "validate_hmac" -> validate_hmac(c.packet, c.key)
      [] c.fn = "parse_and_validate" -> parse_and_validate(c.data, c.key).ret

\* the arguments of the call c are, in the activation record r, what they
\* were when the call was made
ArgsIntact(c, r) ==
    CASE c.fn \in {"build_packet", "build_and_serialize"} ->
             r.guid = c.guid /\ r.payload = c.payload
      [] c.fn \in {"parse_packet", "parse_and_validate"} -> r.data = c.data
      [] c.fn = "validate_hmac" -> r.packet = c.packet

\* C20: concurrent use needs no coordination: under every interleaving of
\* the threads' calls with the same key, each finished call has the
\* result it has when run alone, and the key and the call's input byte
\* strings are what they were when the call was made.
C20_NoCoordination ==
    \A t \in Threads :
        thread[t].pc = "done" =>
            /\ thread[t].result = Alone(thread[t].call)
            /\ the_key = thread[t].call.key
            /\ ArgsIntact(thread[t].call, frame[Frame(t)])

\* a build_and_serialize call has finished with its bytes while another
\* thread is between the two statements of a parse_and_validate call
C20_Witness ==
    \E t, u \in Threads :
        /\ thread[t].pc = "done"
        /\ thread[t].call.fn = "build_and_serialize"
        /\ thread[t].result.kind = "return"
        /\ thread[u].pc = "validate_hmac"
        /\ thread[u].call.fn = "parse_and_validate"

(***************************************************************************)
(* Determinism of the wire output.                                         *)
(***************************************************************************)
\* thread t has finished a build call
Built(t) ==
    /\ thread[t].pc = "done"
    /\ thread[t].call.fn \in {"build_packet", "build_and_serialize"}

C25_PacketHmacGuidLength ==
    /\ op = "compute_packet_hmac" /\ Len(arg.guid) # GuidLen
           => ret = Raise("ValueError")
    /\ op = "validate_packet_hmac"
           => /\ ret.kind = "return"
              /\ Len(arg.guid) # GuidLen \/ Len(arg.key) # KeyLen
                     => ret = Return(FALSE)

\* validate_packet_hmac has been given a 5-byte identifier, a 32-byte key
\* and a 16-byte expected tag
C25_Witness ==
    /\ op = "validate_packet_hmac"
    /\ Len(arg.guid) = GuidLen - 1
    /\ Len(arg.key) = KeyLen
    /\ Len(arg.expected_hmac) = HmacLen
    /\ ret = Return(FALSE)

\* C30: the MAC input guid + payload has no delimiter and is unambiguous
\* all the same: the guid + payload of a Packet equals that of a
\* well-formed pair (6-byte identifier g, payload p) only if the fields are
\* equal, and a tag of a well-formed pair (g, p) is accepted for the pair
\* (g2, p2) only if g2 = g and p2 = p, also when g2 + p2 and g + p are the
\* same bytes split at another place.
C30_MacInputUnambiguous ==
    /\ packet # NoneVal =>
           \A g \in WellFormedGuids, p \in PayloadInputs :
               g \o p = packet.guid \o packet.payload
                   => g = packet.guid /\ p = packet.payload
    /\ (op = "validate_packet_hmac" /\ ret = Return(TRUE)) =>
           \A g \in WellFormedGuids, p \in PayloadInputs :
               compute_packet_hmac(g, p, arg.key) = Return(arg.expected_hmac)
                   => g = arg.guid /\ p = arg.payload

\* the tag of (000000000000, 00) has been refused for the 5-byte
\* identifier 0000000000 with the payload 0000, the same bytes split one
\* byte earlier
C30_Witness ==
    /\ op = "validate_packet_hmac"
    /\ arg.guid = Zeros(GuidLen - 1)
    /\ arg.payload = Zeros(2)
    /\ arg.key = Zeros(KeyLen)
    /\ arg.expected_hmac =
          compute_packet_hmac(Zeros(GuidLen), Zeros(1), Zeros(KeyLen)).val
    /\ ret = Return(FALSE)

(***************************************************************************)
(* Identifier normalisation in the builder.                                *)
(***************************************************************************)
\* C29: identifier normalisation is silent and lossy: build_and_serialize
\* gives the same outcome for every identifier b with
\* pad_guid(b) = pad_guid(guid), it fails only for a key that is not 32
\* bytes long and never for the identifier's length, and a receiver that
\* accepts the bytes obtains pad_guid(guid).
C29_NormalizationLossy ==
    /\ op = "build_and_serialize" =>
           /\ \A b \in BuildGuids :
                  pad_guid(b) = pad_guid(guid)
                      => build_and_serialize(b, payload, key) = built
           /\ built.kind = "raise" => Len(key) # KeyLen
    /\ (Validated /\ Untouched /\ GotPacket) =>
           ret.val.guid = pad_guid(guid)

\* a receiver has accepted a packet built for a one-byte identifier and
\* holds its zero-padded form
C29_Witness ==
    /\ Validated /\ Untouched /\ GotPacket
    /\ guid = <<1>>
    /\ ret.val.guid = <<1, 0, 0, 0, 0, 0>>

(***************************************************************************)
(* UDPSocket.                                                              *)
(***************************************************************************)
\* the datagram bytes b are a packet whose tag is the one key k gives
Authentic(b, k) ==
    /\ Len(b) >= MinPacketLen
    /\ Len(k) = KeyLen
    /\ compute_hmac(SliceFrom(b, HmacLen), k, HmacLen).val
           = Slice(b, 0, HmacLen)

\* C22: no replay protection: a datagram that receive_packet accepted
\* under key k is accepted again under k whenever the same bytes are
\* presented again, whatever calls and datagrams came in between.
C22_ReplayAccepted ==
    (/\ ures.op = "receive_packet"
     /\ ures.data # NoneVal
     /\ hist.captured # NoneVal
     /\ ures.data.data = hist.captured.data
     /\ ures.args.key = hist.captured.key)
        => /\ ures.outcome.kind = "return"
           /\ ures.outcome.val[1] = Slice(ures.data.data, HmacLen, MinPacketLen)
           /\ ures.outcome.val[2] = SliceFrom(ures.data.data, MinPacketLen)

\* the noted datagram has been accepted once more, from the sender that
\* copied it
C22_Witness ==
    /\ ures.op = "receive_packet"
    /\ hist.captured # NoneVal
    /\ hist.captured.again
    /\ ures.data.data = hist.captured.data
    /\ ures.data.addr = "peer"
    /\ ures.outcome.kind = "return"

\* C24: receive_packet on an open socket consumes the datagram at the
\* head of the queue and leaves the socket open; if the datagram is
\* malformed or not authentic under the key it raises ValueError and
\* returns nothing of it, and if it is authentic, also after rejected
\* ones, it returns (guid, payload, addr).
C24_RejectAndGoOn ==
    [][(ReceivePacket("rx") /\ usock["rx"] # NoneVal) =>
          LET i == usock["rx"].fd
              d == Head(fds[i].inbox)
              k == ures'.args.key
          IN  /\ usock' = usock
              /\ fds'[i].state = "open"
              /\ fds'[i].inbox = Tail(fds[i].inbox)
              /\ IF Authentic(d.data, k)
                 THEN ures'.outcome =
                        Return(<<Slice(d.data, HmacLen, MinPacketLen),
                                 SliceFrom(d.data, MinPacketLen), d.addr>>)
                 ELSE ures'.outcome = Raise("ValueError")]_vars

\* a datagram has been rejected with ValueError, the socket is open and
\* the next datagram in the queue is authentic under the same key
C24_Witness ==
    /\ ures.op = "receive_packet"
    /\ ures.outcome = Raise("ValueError")
    /\ usock["rx"] # NoneVal
    /\ fds[usock["rx"].fd].inbox # <<>>
    /\ Authentic(Head(fds[usock["rx"].fd].inbox).data, ures.args.key)

\* C26: close() leaves self.socket None and raises nothing from every
\* state, and on an object whose socket is None (never created, or closed
\* before) it changes nothing.
C26_CloseIdempotent ==
    [][Close("rx") =>
          /\ usock'["rx"] = NoneVal
          /\ ures'.outcome = Return(NoneVal)
          /\ usock["rx"] = NoneVal => (usock' = usock /\ fds' = fds)
          /\ usock["rx"] # NoneVal =>
                 fds'[usock["rx"].fd].state = "closed"]_vars

\* close() has been called on an object that was closed before
C26_Witness ==
    /\ ures.op = "close"
    /\ ures.before = NoneVal
    /\ usock["rx"] = NoneVal
    /\ \E i \in Fds : fds[i].state = "closed"

\* C27: receive_packet never creates a socket: with self.socket None it
\* raises RuntimeError and leaves it None; bind() and send_packet() create
\* the socket when self.socket is None, so that afterwards the object
\* holds an open socket, also when it had been closed.
C27_CreateOnDemand ==
    /\ (ures.op = "receive_packet" /\ ures.before = NoneVal) =>
           /\ ures.outcome = Raise("RuntimeError")
           /\ usock[ures.obj] = NoneVal
    /\ (ures.op \in {"bind", "send_packet"} /\ ures.before = NoneVal) =>
           /\ usock[ures.obj] # NoneVal
           /\ fds[usock[ures.obj].fd].state = "open"

\* send_packet has been called on an object that had been closed, and the
\* object holds an open socket again
C27_Witness ==
    /\ ures.op = "send_packet"
    /\ ures.before = NoneVal
    /\ \E i \in Fds : fds[i].state = "closed"
    /\ usock["rx"] # NoneVal
    /\ fds[usock["rx"].fd].state = "open"

\* C28: a UDPSocket object never leaks an OS socket: every OS socket that
\* is open is the one an object holds in self.socket.
C28_NoLeak ==
    \A i \in Fds :
        fds[i].state = "open" => \E o \in Objs : usock[o] = Sock(i)

\* what receive_packet returns for the packet sent with the arguments a
Delivered(a) == <<pad_guid(a.guid), a.payload, "tx">>

====
